---- MODULE Spec2Model ----
(***************************************************************************)
(* Model of lab01/lab1_simulation.py: the BallisticApp handlers            *)
(* run_simulation and clear_results, the Euler stepping loop, the results  *)
(* list and the results table.                                             *)
(*                                                                         *)
(* Python floats are modelled as binary floating-point numbers with a      *)
(* Precision-bit significand and round-to-nearest-even: a number is a pair *)
(* <<m, e>> that stands for m * 2^e, with 2^(Precision-1) <= |m| <         *)
(* 2^Precision, and zero is <<0, 0>>.  NaN is the pair <<0, 1>>; it        *)
(* propagates through every operation and every comparison with it is      *)
(* false.  The exponent range is not limited, so overflow to inf and       *)
(* underflow to subnormals are outside the model.                          *)
(***************************************************************************)
EXTENDS Integers, Sequences, FiniteSets, TLC

\* ------------------------------------------------------------------------
\* Bounds of the model
\* ------------------------------------------------------------------------
Precision == 6
MaxResults == 2
MaxTraj == 18

\* ------------------------------------------------------------------------
\* Floating-point arithmetic
\* ------------------------------------------------------------------------
\* Every operation is applied to the values of its operands: an operation
\* Op(a, b) is written CHOOSE r \in {OpV(p[1], p[2]) : p \in {<<a, b>>}} : TRUE,
\* which evaluates a and b once, as Python evaluates the operands of an
\* operation before applying it.
Pow2(n) == IF n <= 0 THEN 1 ELSE 2 ^ n

Pow10(n) == IF n <= 0 THEN 1 ELSE 10 ^ n

\* the number of bits of n, 0 <= n < 2^31
BitLen(n) == Cardinality({k \in 0..30 : 2 ^ k <= n})

AbsInt(n) == IF n < 0 THEN -n ELSE n

SgnInt(n) == IF n < 0 THEN -1 ELSE IF n = 0 THEN 0 ELSE 1

Zero == <<0, 0>>

NaN == <<0, 1>>

\* n \div 2^s rounded to the nearest integer, ties to even (n >= 0)
RoundShiftV(n, s) ==
    LET d == Pow2(s)
        q == n \div d
        r == n % d
    IN  IF s <= 0 THEN n
        ELSE IF 2 * r > d \/ (2 * r = d /\ q % 2 = 1) THEN q + 1 ELSE q

\* the float nearest to n * 2^e, where n has s bits more than the significand
NormS(n, e, s) ==
    IF s <= 0 THEN <<n * Pow2(-s), e + s>>
    ELSE CHOOSE r \in {IF q = Pow2(Precision)
                       THEN <<SgnInt(n) * Pow2(Precision - 1), e + s + 1>>
                       ELSE <<SgnInt(n) * q, e + s>> :
                       q \in {RoundShiftV(AbsInt(n), s)}} : TRUE

\* the float nearest to n * 2^e
NormV(n, e) ==
    IF n = 0 THEN Zero
    ELSE CHOOSE r \in {NormS(n, e, s) : s \in {BitLen(AbsInt(n)) - Precision}} : TRUE

Norm(n, e) == CHOOSE r \in {NormV(p[1], p[2]) : p \in {<<n, e>>}} : TRUE

\* the float nearest to (a / den) * 2^e for a >= 0, den > 0: the quotient is
\* taken with K more bits and a sticky last bit
RatK(sgn, a, den, e, K) ==
    NormV(sgn * (2 * ((a * Pow2(K)) \div den) + (IF (a * Pow2(K)) % den = 0 THEN 0 ELSE 1)),
          e - K - 1)

\* the float nearest to (num / den) * 2^e, den > 0
RatV(num, den, e) ==
    IF num = 0 THEN Zero
    ELSE CHOOSE r \in {RatK(SgnInt(num), AbsInt(num), den, e, IF k0 < 0 THEN 0 ELSE k0) :
                       k0 \in {Precision + 2 + BitLen(den) - BitLen(AbsInt(num))}} : TRUE

Rat(num, den, e) == CHOOSE r \in {RatV(p[1], p[2], p[3]) : p \in {<<num, den, e>>}} : TRUE

FromInt(n) == Norm(n, 0)

Neg(a) == IF a[1] = 0 THEN a ELSE <<-a[1], a[2]>>

AbsF(a) == <<AbsInt(a[1]), a[2]>>

AddV(a, b) ==
    LET d == a[2] - b[2]
    IN  IF a = NaN \/ b = NaN THEN NaN
        ELSE IF a[1] = 0 THEN b
        ELSE IF b[1] = 0 THEN a
        ELSE IF d > Precision + 1 THEN a
        ELSE IF -d > Precision + 1 THEN b
        ELSE IF d >= 0 THEN NormV(a[1] * Pow2(d) + b[1], b[2])
        ELSE NormV(a[1] + b[1] * Pow2(-d), a[2])

Add(a, b) == CHOOSE r \in {AddV(p[1], p[2]) : p \in {<<a, b>>}} : TRUE

SubV(a, b) == AddV(a, Neg(b))

Sub(a, b) == CHOOSE r \in {SubV(p[1], p[2]) : p \in {<<a, b>>}} : TRUE

MulV(a, b) == IF a = NaN \/ b = NaN THEN NaN ELSE NormV(a[1] * b[1], a[2] + b[2])

Mul(a, b) == CHOOSE r \in {MulV(p[1], p[2]) : p \in {<<a, b>>}} : TRUE

\* a / b for b # 0
DivV(a, b) ==
    IF a = NaN \/ b = NaN THEN NaN
    ELSE RatV(SgnInt(b[1]) * a[1], AbsInt(b[1]), a[2] - b[2])

Div(a, b) == CHOOSE r \in {DivV(p[1], p[2]) : p \in {<<a, b>>}} : TRUE

\* the largest s in lo..hi with s * s <= n, by bisection
RECURSIVE ISqrtB(_, _, _)
ISqrtB(n, lo, hi) ==
    IF lo >= hi THEN lo
    ELSE CHOOSE s \in {IF mid * mid <= n THEN ISqrtB(n, mid, hi) ELSE ISqrtB(n, lo, mid - 1) :
                       mid \in {(lo + hi + 1) \div 2}} : TRUE

ISqrt(n) == ISqrtB(n, 0, Pow2(Precision + 3))

\* the float nearest to the square root of m * 2^e, taken from m * 2^K with
\* e - K even and a sticky last bit
SqrtK(m, e, K) ==
    CHOOSE r \in {NormV(2 * s + (IF s * s = m * Pow2(K) THEN 0 ELSE 1), ((e - K) \div 2) - 1) :
                  s \in {ISqrt(m * Pow2(K))}} : TRUE

\* math.sqrt(a) for a >= 0
SqrtV(a) ==
    IF a[1] = 0 THEN a
    ELSE SqrtK(a[1], a[2],
               IF (a[2] - (Precision + 3)) % 2 = 0 THEN Precision + 3 ELSE Precision + 4)

Sqrt(a) == CHOOSE r \in {SqrtV(p) : p \in {a}} : TRUE

\* the sign of a - b, or 2 when a or b is NaN
CmpV(a, b) == IF a = NaN \/ b = NaN THEN 2 ELSE SgnInt(AddV(a, Neg(b))[1])

Cmp(a, b) == CHOOSE r \in {CmpV(p[1], p[2]) : p \in {<<a, b>>}} : TRUE

Lt(a, b) == Cmp(a, b) = -1
Le(a, b) == Cmp(a, b) \in {-1, 0}
Gt(a, b) == Cmp(a, b) = 1
Ge(a, b) == Cmp(a, b) \in {0, 1}

\* f"{a:.<digits>f}": the decimal text, kept as its sign and its digits; the
\* text of NaN is "nan"
FmtV(a, digits) ==
    LET N == AbsInt(a[1]) * Pow10(digits)
        v == IF a[2] >= 0 THEN N * Pow2(a[2])
             ELSE IF -a[2] >= 30 THEN 0
             ELSE RoundShiftV(N, -a[2])
    IN  IF a = NaN THEN [nan |-> TRUE, neg |-> FALSE, digits |-> 0]
        ELSE [nan |-> FALSE, neg |-> a[1] < 0, digits |-> v]

Fmt(a, digits) == CHOOSE r \in {FmtV(p[1], p[2]) : p \in {<<a, digits>>}} : TRUE

\* ------------------------------------------------------------------------
\* The parameter form: the text of each entry field
\* ------------------------------------------------------------------------
\* a decimal text num/den, the text "nan", or a text float() cannot parse
Text(num, den) == [kind |-> "number", num |-> num, den |-> den]
NanText == [kind |-> "nan", num |-> 0, den |-> 1]
Garbage == [kind |-> "garbage", num |-> 0, den |-> 1]

V0Texts == {Text(100, 1), Text(0, 1)}
AngleTexts == {Text(45, 1), Text(0, 1), Text(90, 1)}
MTexts == {Text(1, 1), Text(0, 1)}
RhoTexts == {Text(129, 100)}
CTexts == {Text(15, 100), Text(0, 1)}
STexts == {Text(1, 100)}
DtTexts == {Text(1, 1000000), Text(1, 1), Text(5, 1), Text(11, 1), Text(0, 1),
            Text(-1, 1), NanText, Garbage}

Entries == [v0 : V0Texts, angle : AngleTexts, m : MTexts, rho : RhoTexts,
            C : CTexts, S : STexts, dt : DtTexts]

\* float(text) of a text that parses
ParseFloat(text) == IF text.kind = "nan" THEN NaN ELSE Rat(text.num, text.den, 0)

Parses(text) == text.kind # "garbage"

NoParams == [v0 |-> Zero, angle |-> Zero, m |-> Zero, rho |-> Zero,
             C |-> Zero, S |-> Zero, dt |-> Zero]

\* if params['dt'] <= 0
StepInvalid(dt) == Le(dt, Zero)

\* a variant of SpeedInvalid that lets a zero speed through
SpeedInvalidStrict(v0) == Lt(v0, Zero)

\* if params['v0'] <= 0
SpeedInvalid(v0) == Le(v0, Zero)

\* if params['angle'] <= 0 or params['angle'] >= 90
AngleInvalid(angle) == Le(angle, Zero) \/ Ge(angle, FromInt(90))

\* get_parameters: the parsed parameters, or the error it shows
get_parameters(e) ==
    LET params == [v0 |-> ParseFloat(e.v0), angle |-> ParseFloat(e.angle),
                   m |-> ParseFloat(e.m), rho |-> ParseFloat(e.rho),
                   C |-> ParseFloat(e.C), S |-> ParseFloat(e.S),
                   dt |-> ParseFloat(e.dt)]
    IN  IF ~(Parses(e.v0) /\ Parses(e.angle) /\ Parses(e.m) /\ Parses(e.rho)
             /\ Parses(e.C) /\ Parses(e.S) /\ Parses(e.dt))
        THEN [ok |-> FALSE, message |-> "could not convert string to float", params |-> NoParams]
        ELSE IF StepInvalid(params.dt)
        THEN [ok |-> FALSE, message |-> "step must be positive", params |-> NoParams]
        ELSE IF SpeedInvalid(params.v0)
        THEN [ok |-> FALSE, message |-> "initial speed must be positive", params |-> NoParams]
        ELSE IF AngleInvalid(params.angle)
        THEN [ok |-> FALSE, message |-> "angle must be within 0-90 degrees", params |-> NoParams]
        ELSE [ok |-> TRUE, message |-> "", params |-> params]

\* ------------------------------------------------------------------------
\* Physics of one run
\* ------------------------------------------------------------------------
g == Rat(981, 100, 0)

Half == Rat(1, 2, 0)

\* math.radians(angle) = angle * (pi / 180)
Radians(angle) == Mul(angle, Rat(355, 20340, 0))

\* math.cos and math.sin, tabulated for the launch angle get_parameters
\* accepts among AngleTexts
Cos(rad) == CASE rad = Radians(FromInt(45)) -> Rat(7071, 10000, 0)
Sin(rad) == CASE rad = Radians(FromInt(45)) -> Rat(7071, 10000, 0)

calculate_drag_force(v, params) ==
    Mul(Mul(Mul(Mul(Half, params.rho), params.C), params.S), Mul(v, v))

\* v = math.sqrt(vx ** 2 + vy ** 2)
Speed(vx, vy) == Sqrt(Add(Mul(vx, vx), Mul(vy, vy)))

\* the division of line 189 raises ZeroDivisionError
DivisionByZero(m, v) == Gt(v, Zero) /\ Mul(m, v) = Zero

\* a variant of AccelX with the sign of the drag term lost
AccelXUnsigned(drag_force, vx, m, v) ==
    IF Gt(v, Zero) THEN Div(Mul(drag_force, vx), Mul(m, v)) ELSE Zero

\* ax = -drag_force * vx / (params['m'] * v) if v > 0 else 0
AccelX(drag_force, vx, m, v) ==
    IF Gt(v, Zero) THEN Div(Mul(Neg(drag_force), vx), Mul(m, v)) ELSE Zero

\* ay = -self.g - drag_force * vy / (params['m'] * v) if v > 0 else -self.g
AccelY(drag_force, vy, m, v) ==
    IF Gt(v, Zero) THEN Sub(Neg(g), Div(Mul(drag_force, vy), Mul(m, v))) ELSE Neg(g)

\* the condition of the while loop
LoopCond(y) == Ge(y, Zero)

\* a variant of NewMaxHeight that keeps the last height above the ground
NewMaxHeightLast(y, max_height) == IF Gt(y, Zero) THEN y ELSE max_height

\* if y > max_height: max_height = y
NewMaxHeight(y, max_height) == IF Gt(y, max_height) THEN y ELSE max_height

\* ------------------------------------------------------------------------
\* Duplicate step check and the results table
\* ------------------------------------------------------------------------
\* 1e-10
Tolerance == Mul(Rat(1, 100000, 0), Rat(1, 100000, 0))

\* a variant of DuplicateStep with the comparison reversed
DuplicateStepReversed(result_dt, dt) == Gt(AbsF(Sub(result_dt, dt)), Tolerance)

\* if abs(result.dt - dt) < 1e-10
DuplicateStep(result_dt, dt) == Lt(AbsF(Sub(result_dt, dt)), Tolerance)

\* The for loop over self.results: answers[i] is what the user answers when
\* asked about results[i]; shown is the answers given so far.
RECURSIVE DuplicateCheck(_, _, _, _, _)
DuplicateCheck(rs, dt, answers, i, shown) ==
    IF i > Len(rs) THEN [proceed |-> TRUE, dialogs |-> shown]
    ELSE IF DuplicateStep(rs[i].dt, dt)
         THEN IF ~answers[i]
              THEN [proceed |-> FALSE, dialogs |-> Append(shown, FALSE)]
              ELSE DuplicateCheck(rs, dt, answers, i + 1, Append(shown, TRUE))
         ELSE DuplicateCheck(rs, dt, answers, i + 1, shown)

\* one row of the Treeview
Row(result) ==
    [dt |-> Fmt(result.dt, 6),
     f_range |-> Fmt(result.f_range, 2),
     max_height |-> Fmt(result.max_height, 2),
     final_speed |-> Fmt(result.final_speed, 2),
     flight_time |-> Fmt(Mul(FromInt(Len(result.trajectory)), result.dt), 2)]

\* a variant of DeleteRows that leaves the old rows in the table
DeleteRowsNone(rows) == rows

\* for item in self.tree.get_children(): self.tree.delete(item)
DeleteRows(rows) == <<>>

RECURSIVE InsertRows(_, _, _)
InsertRows(rows, rs, i) ==
    IF i > Len(rs) THEN rows ELSE InsertRows(Append(rows, Row(rs[i])), rs, i + 1)

update_table(rows, rs) == InsertRows(DeleteRows(rows), rs, 1)

\* a variant of AppendResult that inserts at the front
AppendResultFront(rs, result) == <<result>> \o rs

\* self.results.append(result)
AppendResult(rs, result) == Append(rs, result)

\* self.results.clear()
ClearList(rs) == <<>>

\* ------------------------------------------------------------------------
\* State
\* ------------------------------------------------------------------------
VARIABLES
    results,      \* self.results
    tree,         \* the rows of self.tree
    pc,           \* "idle", or "loop" while run_simulation is in its while loop
    op,           \* what the last handler step did
    message,      \* the messagebox.showerror text of the last handler, or ""
    dialogs,      \* the answers to the askyesno dialogs of the last handler
    rejectable,   \* whether the texts of the last run had a fault of section 7
    params,       \* locals of run_simulation
    x, y, vx, vy, t, max_height, trajectory,
    truncated     \* the trajectory has more than MaxTraj samples

locals == <<params, x, y, vx, vy, t, max_height, trajectory, truncated>>
vars == <<results, tree, pc, op, message, dialogs, rejectable, params,
          x, y, vx, vy, t, max_height, trajectory, truncated>>

\* the locals of run_simulation do not exist outside a run
NoLocals ==
    /\ params' = NoParams
    /\ x' = Zero /\ y' = Zero /\ vx' = Zero /\ vy' = Zero /\ t' = Zero
    /\ max_height' = Zero
    /\ trajectory' = <<>>
    /\ truncated' = FALSE

\* The faults section 7 of the specification lists, read off the texts.
Rejectable(e) ==
    \/ \E f \in {e.v0, e.angle, e.m, e.rho, e.C, e.S, e.dt} : f.kind = "garbage"
    \/ e.dt.kind = "number" /\ e.dt.num <= 0
    \/ e.v0.kind = "number" /\ e.v0.num <= 0
    \/ e.angle.kind = "number" /\ e.angle.num <= 0
    \/ e.angle.kind = "number" /\ e.angle.num >= 90 * e.angle.den

Init ==
    /\ results = <<>>
    /\ tree = <<>>
    /\ pc = "idle"
    /\ op = "init"
    /\ message = ""
    /\ dialogs = <<>>
    /\ rejectable = FALSE
    /\ params = NoParams
    /\ x = Zero /\ y = Zero /\ vx = Zero /\ vy = Zero /\ t = Zero
    /\ max_height = Zero
    /\ trajectory = <<>>
    /\ truncated = FALSE

\* run_simulation, lines 158-160: get_parameters shows an error
RunRejected ==
    /\ pc = "idle"
    /\ Len(results) < MaxResults
    /\ \E e \in Entries :
        LET gp == get_parameters(e)
        IN  /\ ~gp.ok
            /\ message' = gp.message
            /\ rejectable' = Rejectable(e)
    /\ op' = "run_rejected"
    /\ dialogs' = <<>>
    /\ UNCHANGED <<results, tree, pc, locals>>

\* run_simulation, lines 162-169: the user declines to repeat a step size
RunDeclined ==
    /\ pc = "idle"
    /\ Len(results) < MaxResults
    /\ \E e \in Entries, answers \in [1..Len(results) -> BOOLEAN] :
        LET gp == get_parameters(e)
            dc == DuplicateCheck(results, gp.params.dt, answers, 1, <<>>)
        IN  /\ gp.ok
            /\ ~dc.proceed
            /\ dialogs' = dc.dialogs
            /\ rejectable' = Rejectable(e)
    /\ op' = "run_declined"
    /\ message' = ""
    /\ UNCHANGED <<results, tree, pc, locals>>

\* run_simulation, lines 158-179: up to the start of the while loop
RunStart ==
    /\ pc = "idle"
    /\ Len(results) < MaxResults
    /\ \E e \in Entries, answers \in [1..Len(results) -> BOOLEAN] :
        LET gp == get_parameters(e)
            dc == DuplicateCheck(results, gp.params.dt, answers, 1, <<>>)
            angle_rad == Radians(gp.params.angle)
        IN  /\ gp.ok
            /\ dc.proceed
            /\ dialogs' = dc.dialogs
            /\ rejectable' = Rejectable(e)
            /\ params' = gp.params
            /\ x' = Zero
            /\ y' = Zero
            /\ vx' = Mul(gp.params.v0, Cos(angle_rad))
            /\ vy' = Mul(gp.params.v0, Sin(angle_rad))
            /\ trajectory' = << <<Zero, Zero>> >>
            /\ t' = Zero
            /\ max_height' = Zero
            /\ truncated' = FALSE
    /\ pc' = "loop"
    /\ op' = "run_started"
    /\ message' = ""
    /\ UNCHANGED <<results, tree>>

\* one iteration of the while loop, lines 182-205; each local of the
\* iteration is bound to its value in the order the code assigns it
Step ==
    /\ pc = "loop"
    /\ LoopCond(y)
    /\ \E v \in {Speed(vx, vy)} :
       \E drag_force \in {calculate_drag_force(v, params)} :
        /\ ~DivisionByZero(params.m, v)
        /\ \E ax \in {AccelX(drag_force, vx, params.m, v)},
              ay \in {AccelY(drag_force, vy, params.m, v)} :
           \E vx1 \in {Add(vx, Mul(ax, params.dt))},
              vy1 \in {Add(vy, Mul(ay, params.dt))} :
           \E x1 \in {Add(x, Mul(vx1, params.dt))},
              y1 \in {Add(y, Mul(vy1, params.dt))} :
            /\ vx' = vx1
            /\ vy' = vy1
            /\ x' = x1
            /\ y' = y1
            /\ t' = Add(t, params.dt)
            /\ trajectory' = IF Len(trajectory) < MaxTraj
                             THEN Append(trajectory, <<x1, y1>>)
                             ELSE trajectory
            /\ truncated' = (truncated \/ Len(trajectory) >= MaxTraj)
            /\ max_height' = NewMaxHeight(y1, max_height)
    /\ op' = "step"
    /\ UNCHANGED <<results, tree, pc, message, dialogs, rejectable, params>>

\* an iteration whose line 189 raises: the exception leaves run_simulation
StepRaises ==
    /\ pc = "loop"
    /\ LoopCond(y)
    /\ DivisionByZero(params.m, Speed(vx, vy))
    /\ pc' = "idle"
    /\ op' = "run_raised"
    /\ NoLocals
    /\ UNCHANGED <<results, tree, message, dialogs, rejectable>>

\* lines 207-226: the loop has ended; store the result and redraw
Finish ==
    /\ pc = "loop"
    /\ ~LoopCond(y)
    /\ \E range_distance \in {x},
          final_speed \in {IF Le(y, Zero) THEN Speed(vx, vy) ELSE Zero} :
       \E result \in {[dt |-> params.dt,
                       trajectory |-> trajectory,
                       f_range |-> range_distance,
                       max_height |-> max_height,
                       final_speed |-> final_speed]} :
        /\ results' = AppendResult(results, result)
        /\ tree' = update_table(tree, AppendResult(results, result))
    /\ pc' = "idle"
    /\ op' = "run_completed"
    /\ NoLocals
    /\ UNCHANGED <<message, dialogs, rejectable>>

\* clear_results, lines 274-280
clear_results ==
    /\ pc = "idle"
    /\ \E answer \in BOOLEAN :
        /\ dialogs' = <<answer>>
        /\ IF answer
           THEN /\ results' = ClearList(results)
                /\ tree' = update_table(tree, ClearList(results))
                /\ op' = "clear_confirmed"
           ELSE /\ op' = "clear_declined"
                /\ UNCHANGED <<results, tree>>
    /\ message' = ""
    /\ UNCHANGED <<pc, rejectable, locals>>

Next ==
    \/ RunRejected
    \/ RunDeclined
    \/ RunStart
    \/ Step
    \/ StepRaises
    \/ Finish
    \/ clear_results

Spec == Init /\ [][Next]_vars

\* run_simulation runs to completion: the loop keeps iterating
FairSpec == Spec /\ WF_vars(Step) /\ WF_vars(Finish) /\ WF_vars(StepRaises)


\* ------------------------------------------------------------------------
\* Properties
\* ------------------------------------------------------------------------
Heights(traj) == {traj[i][2] : i \in 1..Len(traj)}

LastOf(seq) == seq[Len(seq)]

\* the parameters C1 and C10 are about
Physical(p) ==
    /\ Gt(p.dt, Zero) /\ Gt(p.v0, Zero)
    /\ Gt(p.angle, Zero) /\ Lt(p.angle, FromInt(90))
    /\ Gt(p.m, Zero)
    /\ Ge(p.rho, Zero) /\ Ge(p.C, Zero) /\ Ge(p.S, Zero)

\* C1: a run with step > 0, speed > 0, 0 < angle < 90, mass > 0 and
\* non-negative air density, drag coefficient and cross-section takes at least
\* one step and then leaves the loop: the run completes with a trajectory of
\* at least two samples.
C1_LoopTerminates ==
    (pc = "loop" /\ Physical(params))
        ~> (op = "run_completed" /\ Len(LastOf(results).trajectory) >= 2)

\* C2: every stored trajectory starts with the sample (0, 0), every sample but
\* the last has height >= 0 and the last sample has height < 0.
C2_TrajectoryShape ==
    \A k \in 1..Len(results) :
        LET traj == results[k].trajectory
        IN  /\ traj[1] = <<Zero, Zero>>
            /\ \A i \in 1..(Len(traj) - 1) : Ge(traj[i][2], Zero)
            /\ Lt(LastOf(traj)[2], Zero)

\* C3: max_height is the maximum of the heights of the samples, the initial
\* sample included: it is the height of a sample and no sample is higher.
\* It holds of every stored result and, at every iteration, of the samples
\* appended so far.
IsMaxHeight(h, traj) == h \in Heights(traj) /\ \A o \in Heights(traj) : ~Gt(o, h)

C3_MaxHeight ==
    /\ \A k \in 1..Len(results) : IsMaxHeight(results[k].max_height, results[k].trajectory)
    /\ (pc = "loop" /\ ~truncated) => IsMaxHeight(max_height, trajectory)

C3_Witness ==
    \E k \in 1..Len(results) :
        /\ Gt(results[k].max_height, Zero)
        /\ Len(results[k].trajectory) >= 4
        /\ LastOf(results[k].trajectory)[2] # results[k].max_height

\* a step of the model that is a click on the run button
RunClick == pc = "idle" /\ op' \in {"run_rejected", "run_declined", "run_started"}

\* C4: a run whose texts have a fault that get_parameters rejects shows an
\* error and returns without simulating; the results and the table stay as
\* they were.
C4_RejectedRunChangesNothing ==
    [][(RunClick /\ rejectable')
        => /\ op' = "run_rejected"
           /\ message' # ""
           /\ pc' = "idle"
           /\ results' = results
           /\ tree' = tree]_vars

C4_Witness == op = "run_rejected" /\ rejectable /\ message # "" /\ Len(results) >= 1

\* C5: no run that get_parameters accepts raises.
C5_NeverRaises == op # "run_raised"

\* C6: the results list only changes by a completed run appending one result
\* at its end or by a confirmed clear emptying it; a declined clear leaves it
\* unchanged.
C6_AppendOnly ==
    [][/\ \/ results' = results
          \/ /\ pc = "loop" /\ op' = "run_completed"
             /\ Len(results') = Len(results) + 1
             /\ SubSeq(results', 1, Len(results)) = results
          \/ /\ pc = "idle" /\ op' = "clear_confirmed" /\ dialogs' = <<TRUE>>
             /\ results' = <<>>
       /\ (pc = "loop" /\ op' = "run_completed") => Len(results') = Len(results) + 1
       /\ (pc = "idle" /\ op' = "clear_confirmed") => results' = <<>>
       /\ (pc = "idle" /\ op' = "clear_declined") => results' = results]_vars

C6_Witness ==
    /\ op = "run_completed"
    /\ Len(results) = 2
    /\ results[1] # results[2]

\* C7: a run whose step matches a stored result (difference below 1e-10) asks
\* the user; a decline returns with the results unchanged; a result whose step
\* matches a stored one is appended only after the user confirmed; a run whose
\* step matches no stored result asks nothing.
Matching(rs, dt) == {k \in 1..Len(rs) : Lt(AbsF(Sub(rs[k].dt, dt)), Tolerance)}

Confirmed(d) == d # <<>> /\ \A i \in 1..Len(d) : d[i]

C7_DuplicateStepGated ==
    [][/\ (RunClick /\ op' = "run_started")
            => /\ Matching(results, params'.dt) = {} => dialogs' = <<>>
               /\ Matching(results, params'.dt) # {} => Confirmed(dialogs')
       /\ (RunClick /\ op' = "run_declined")
            => /\ results' = results /\ tree' = tree /\ pc' = "idle"
               /\ dialogs' # <<>> /\ ~LastOf(dialogs')
       /\ (pc = "loop" /\ op' = "run_completed"
             /\ Matching(results, LastOf(results').dt) # {})
            => Confirmed(dialogs)]_vars

C7_Witness ==
    /\ op = "run_completed"
    /\ Len(results) = 2
    /\ results[1].dt = results[2].dt
    /\ dialogs = <<TRUE>>

\* C8: the table has exactly one row per stored result, in the order of the
\* results, with the text of that result's step, range, max height and final
\* speed.
C8_TableShowsResults ==
    /\ Len(tree) = Len(results)
    /\ \A k \in 1..Len(results) :
        /\ tree[k].dt = Fmt(results[k].dt, 6)
        /\ tree[k].f_range = Fmt(results[k].f_range, 2)
        /\ tree[k].max_height = Fmt(results[k].max_height, 2)
        /\ tree[k].final_speed = Fmt(results[k].final_speed, 2)

C8_Witness ==
    /\ op = "run_completed"
    /\ Len(tree) = 2
    /\ tree[1] # tree[2]

\* C9: the flight time in the row of a run is the text of the elapsed time t
\* the loop had accumulated when the run stopped.
C9_FlightTimeIsElapsedTime ==
    [][(pc = "loop" /\ op' = "run_completed")
        => LastOf(tree').flight_time = Fmt(t, 2)]_vars

\* C10: with validated input, mass > 0 and non-negative air density, drag
\* coefficient and cross-section the horizontal velocity is >= 0 at every
\* step, the horizontal coordinates of the trajectory do not decrease and the
\* range is >= 0.
C10_NoReversal ==
    (pc = "loop" /\ Physical(params))
        => /\ Ge(vx, Zero)
           /\ \A i \in 1..(Len(trajectory) - 1) : Ge(trajectory[i + 1][1], trajectory[i][1])

\* C10 as amended: in a step with horizontal velocity >= 0 whose drag
\* impulse is at most half the momentum (0.5 * rho * C * S * v * dt <= m / 2),
\* the horizontal velocity does not grow and stays >= 0 and the horizontal
\* coordinate does not decrease.
SmallDragImpulse(p, v) ==
    Le(Mul(FromInt(2), Mul(Mul(Mul(Mul(Mul(Half, p.rho), p.C), p.S), v), p.dt)), p.m)

C10_NoReversalInSmallSteps ==
    [][(/\ pc = "loop" /\ op' = "step"
        /\ Physical(params)
        /\ Ge(vx, Zero)
        /\ SmallDragImpulse(params, Speed(vx, vy)))
        => /\ Ge(vx', Zero)
           /\ Le(vx', vx)
           /\ Ge(x', x)]_vars

C10_Witness ==
    /\ pc = "loop" /\ op = "step"
    /\ Physical(params)
    /\ Gt(params.C, Zero)
    /\ Len(trajectory) >= 3
    /\ Gt(vx, Zero)
    /\ Lt(vx, Mul(params.v0, Cos(Radians(params.angle))))
    /\ SmallDragImpulse(params, Speed(vx, vy))

====
